---- MODULE Spec2Model ----
(***************************************************************************)
(* State-machine model of rabbit-eye: the table state (set_row / drain),   *)
(* the filesystem scan iteration and the engine loop with its renewable    *)
(* worker and shutdown ladder.                                             *)
(***************************************************************************)
EXTENDS Integers, Sequences, FiniteSets, TLC

VARIABLES
    ts,         \* DefaultTableState: [tablehash, rows, changes]
    ts_pc,      \* "scan" while set_row may be called, "drained" after drain
    rows0,      \* the rows the state was constructed with
    calls,      \* the set_row calls made so far, as <<key, hash>>
    flag,       \* the delete_remainder argument drain was called with
    emitted,    \* the sequence of StateChange drain returned
    \* filesystem/src/fs.rs: one call of check_and_report_files
    tree,       \* the directory tree: directory path -> set of entries
    state,      \* the caller's State: [tablehash, rowhash]
    state0,     \* the State the call started with
    cancel,     \* whether the CancellationToken passed in is cancelled
    f_pc,       \* position of check_and_report_files
    dir,        \* rowhash: the stack of directories still to read
    root,       \* rowhash: the directory being read
    dir_files,  \* rowhash: the entries read_dir has not yet returned
    rows,       \* rowhash: the rows recorded, [id, hash, message]
    saw_cancel, \* rowhash observed the token cancelled and broke out
    former_state, \* check_and_report_files: the rows of the replaced State
    idx,        \* check_and_report_files: rows of `changes` consumed
    published,  \* the messages basic_publish accepted, in order
    \* rabbit-eye/src/engine.rs: run, the supervisor and the work tasks
    life,       \* AppLifetime: which of abort, graceful, natural is cancelled
    tokens,     \* the iteration tokens: tokens[n] is whether token n is cancelled
    s_pc,       \* position of the supervisor task of AppLifetime::start
    s_elapsed,  \* whether the sleep the supervisor is waiting on has elapsed
    l_pc,       \* position of loop_until_cancel inside run_until_abort
    handle,     \* RenewableWorker.handle: <<>> or <<[handle, cancel]>>
    held,       \* the pair a method took out of the slot and is waiting on
    tasks,      \* the work tasks: [st, i] for each task ever spawned
    created,    \* the number of iteration tokens created so far
    joined,     \* the tasks whose JoinHandle has already returned its output
    prev,       \* the task the last finish_and_renew found in the slot, or 0
    close_ret,  \* what close_with_abort_after returned, "" before it returns
    drop_pc,    \* where the loop waited when run_until_abort dropped it
    \* rabbit-eye/src/lifetime.rs: one call of try_graceful_shutdown
    g_pc,       \* position of try_graceful_shutdown
    g_f,        \* the task behind the JoinHandle f: [st, i, out]
    g_token,    \* whether the token `cancel` is cancelled
    g_elapsed,  \* whether the sleep of the select in progress has elapsed
    g_ret,      \* what the call returned: <<>>, <<"Ok", out>> or <<"Err">>
    g_at_elapse \* the task's status at the moment each sleep elapsed

tsVars == <<ts, ts_pc, rows0, calls, flag, emitted>>

fsVars == <<tree, state, state0, cancel, f_pc, dir, root, dir_files, rows,
            saw_cancel, former_state, idx, published>>

engVars == <<life, tokens, s_pc, s_elapsed, l_pc, handle, held, tasks,
             created, joined, prev, close_ret, drop_pc>>

ladVars == <<g_pc, g_f, g_token, g_elapsed, g_ret, g_at_elapse>>

vars == <<tsVars, fsVars, engVars, ladVars>>

----------------------------------------------------------------------------
(* Bounds                                                                  *)

MaxKey == 2
MaxSetRows == 3
MaxSpawns == 3
MaxLadderWork == 3

Keys == 1..MaxKey
Hashes == {1, 2}
TableHashes == {<<>>, <<1>>}            \* Option<u64>: None or Some(1)

----------------------------------------------------------------------------
(* state.rs : state_change                                                 *)

None(k) == [tag |-> "None", key |-> k]
New(k) == [tag |-> "New", key |-> k]
Update(k) == [tag |-> "Update", key |-> k]
Delete(k) == [tag |-> "Delete", key |-> k]

\* HashMap::insert
Insert(m, k, v) == [x \in DOMAIN m \cup {k} |-> IF x = k THEN v ELSE m[x]]

\* the HashMaps over Keys
RowMaps == UNION {[S -> Hashes] : S \in SUBSET Keys}

\* DefaultTableState::new
DefaultTableState(th, rs) ==
    [tablehash |-> th, rows |-> rs, changes |-> <<>>]

\* set_row that never compares the stored hash: every stored key is an Update
set_row_no_compare(self, key, hash) ==
    IF key \in DOMAIN self.rows
    THEN [self EXCEPT !.rows[key] = hash,
                      !.changes = Append(@, Update(key))]
    ELSE [self EXCEPT !.changes = Append(@, New(key)),
                      !.rows = Insert(@, key, hash)]

\* set_row that pushes Update without overwriting the stored hash
set_row_no_overwrite(self, key, hash) ==
    IF key \in DOMAIN self.rows
    THEN IF self.rows[key] = hash
         THEN [self EXCEPT !.changes = Append(@, None(key))]
         ELSE [self EXCEPT !.changes = Append(@, Update(key))]
    ELSE [self EXCEPT !.changes = Append(@, New(key)),
                      !.rows = Insert(@, key, hash)]

\* set_row that pushes New without inserting the row
set_row_no_insert(self, key, hash) ==
    IF key \in DOMAIN self.rows
    THEN IF self.rows[key] = hash
         THEN [self EXCEPT !.changes = Append(@, None(key))]
         ELSE [self EXCEPT !.rows[key] = hash,
                           !.changes = Append(@, Update(key))]
    ELSE [self EXCEPT !.changes = Append(@, New(key))]

\* DefaultTableState::set_row
set_row(self, key, hash) ==
    IF key \in DOMAIN self.rows
    THEN IF self.rows[key] = hash
         THEN [self EXCEPT !.changes = Append(@, None(key))]
         ELSE [self EXCEPT !.rows[key] = hash,
                           !.changes = Append(@, Update(key))]
    ELSE [self EXCEPT !.changes = Append(@, New(key)),
                      !.rows = Insert(@, key, hash)]

\* the orders in which a HashSet over Keys may be iterated
IterOrders ==
    {o \in [1..MaxKey -> Keys] : \A i, j \in 1..MaxKey : i # j => o[i] # o[j]}

\* the `for seen in self.changes` loop of drain, from position i on:
\* returns the pair <<changes, unseen>>
RECURSIVE DrainSeen(_, _, _, _)
DrainSeen(pending, i, changes, unseen) ==
    IF i > Len(pending) THEN <<changes, unseen>>
    ELSE LET seen == pending[i] IN
         IF seen.tag = "None"
         THEN DrainSeen(pending, i + 1, changes, unseen \ {seen.key})
         ELSE DrainSeen(pending, i + 1, Append(changes, seen), unseen \ {seen.key})

\* the `for rem in unseen` loop of drain, the set iterated in order `order`
RECURSIVE DrainUnseen(_, _, _, _)
DrainUnseen(order, i, changes, unseen) ==
    IF i > Len(order) THEN changes
    ELSE IF order[i] \in unseen
         THEN DrainUnseen(order, i + 1, Append(changes, Delete(order[i])), unseen)
         ELSE DrainUnseen(order, i + 1, changes, unseen)

\* drain that infers deletions whatever delete_remainder says
drain_ignores_flag(self, delete_remainder, order) ==
    LET r == DrainSeen(self.changes, 1, <<>>, DOMAIN self.rows)
    IN  DrainUnseen(order, 1, r[1], r[2])

\* drain that does not mark a key seen when its entry is None
drain_none_stays_unseen(self, delete_remainder, order) ==
    LET unseen == IF delete_remainder THEN DOMAIN self.rows ELSE {}
        r == DrainSeen(SelectSeq(self.changes, LAMBDA c : c.tag # "None"),
                       1, <<>>, unseen)
    IN  DrainUnseen(order, 1, r[1], r[2])

\* drain that emits the inferred deletions ahead of the observed changes
drain_deletes_first(self, delete_remainder, order) ==
    LET unseen == IF delete_remainder THEN DOMAIN self.rows ELSE {}
        r == DrainSeen(self.changes, 1, <<>>, unseen)
    IN  DrainUnseen(order, 1, <<>>, r[2]) \o r[1]

\* drain that pushes every pending entry, the None ones included
drain_emits_none(self, delete_remainder, order) ==
    LET unseen == IF delete_remainder THEN DOMAIN self.rows ELSE {}
        r == DrainSeen(self.changes, 1, <<>>, unseen)
    IN  DrainUnseen(order, 1, self.changes, r[2])

\* DefaultTableState::drain; `order` is the iteration order of the HashSet
drain(self, delete_remainder, order) ==
    LET unseen == IF delete_remainder THEN DOMAIN self.rows ELSE {}
        r == DrainSeen(self.changes, 1, <<>>, unseen)
    IN  DrainUnseen(order, 1, r[1], r[2])

----------------------------------------------------------------------------
(* A scan of the table state: construction, set_row calls, one drain       *)

TsInit ==
    /\ \E th \in TableHashes, rs \in RowMaps :
          /\ ts = DefaultTableState(th, rs)
          /\ rows0 = rs
    /\ ts_pc = "scan"
    /\ calls = <<>>
    /\ flag = FALSE
    /\ emitted = <<>>

TsSetRow ==
    /\ ts_pc = "scan"
    /\ Len(calls) < MaxSetRows
    /\ \E key \in Keys, hash \in Hashes :
          /\ ts' = set_row(ts, key, hash)
          /\ calls' = Append(calls, <<key, hash>>)
    /\ UNCHANGED <<ts_pc, rows0, flag, emitted>>
    /\ UNCHANGED <<fsVars, engVars, ladVars>>

TsDrain ==
    /\ ts_pc = "scan"
    /\ \E delete_remainder \in BOOLEAN, order \in IterOrders :
          /\ emitted' = drain(ts, delete_remainder, order)
          /\ flag' = delete_remainder
    /\ ts_pc' = "drained"
    /\ UNCHANGED <<ts, rows0, calls>>
    /\ UNCHANGED <<fsVars, engVars, ladVars>>

TsNext == TsSetRow \/ TsDrain

\* the table state when no table scan is modelled
TsIdle ==
    /\ ts = DefaultTableState(<<>>, <<>>)
    /\ ts_pc = "idle"
    /\ rows0 = <<>>
    /\ calls = <<>>
    /\ flag = FALSE
    /\ emitted = <<>>

----------------------------------------------------------------------------
(* filesystem/src/fs.rs and the State of rabbit-eye/src/state.rs           *)

\* file names; "d" names the one subdirectory
FileNames == {"a", "b"}
DirName == "d"
Mtimes == Hashes

\* a path is the sequence of its components below the scanned root
RootPath == <<>>
SubPath == <<DirName>>

\* the entries a directory may hold: [name, is_dir, mtime]
FileEntry(n, t) == [name |-> n, is_dir |-> FALSE, mtime |-> t]
DirEntry(n, t) == [name |-> n, is_dir |-> TRUE, mtime |-> t]

\* the sets of file entries with distinct names, drawn from `names`
FileSets(names) ==
    UNION {{{FileEntry(n, f[n]) : n \in S} : f \in [S -> Mtimes]} :
           S \in SUBSET names}

\* the directory trees: files a, b under the root; optionally directory d
\* holding a file a of its own
Trees ==
    {[p \in {RootPath} |-> fs] : fs \in FileSets(FileNames)}
    \cup
    {[p \in {RootPath, SubPath} |->
        IF p = RootPath THEN fs \cup {DirEntry(DirName, t)} ELSE sub] :
      fs \in FileSets(FileNames), t \in Mtimes, sub \in FileSets({"a"})}

\* with_recursive(true) in check_and_report_files
recursive == TRUE

\* DefaultHasher over the entry's file name: distinct names, distinct ids
file_hash(name) == <<"hash", name>>

RowIds == {file_hash(n) : n \in FileNames \cup {DirName}}

\* the States a previous iteration may have left
States ==
    UNION {{[tablehash |-> <<>>, rowhash |-> m] : m \in [S -> Mtimes]} :
           S \in SUBSET RowIds}

\* State::empty
StateEmpty == [tablehash |-> <<>>, rowhash |-> <<>>]

\* State::row
StateRow(st, id) == IF id \in DOMAIN st.rowhash THEN <<st.rowhash[id]>> ELSE <<>>

\* State::set_row
StateSetRow(st, id, hash) == [st EXCEPT !.rowhash = Insert(@, id, hash)]

\* HashMap::remove, as State::pop_row uses it
Remove(m, k) == [x \in DOMAIN m \ {k} |-> m[x]]

\* FileChangeDetector::tablehash
tablehash == <<>>

\* PathBuf::join
Join(path, name) == Append(path, name)

\* the directory entry as rowhash hashes it: the id is the hash of the
\* file name alone, the message carries the full path
RowOf(st, dirpath, e) ==
    LET id == file_hash(e.name)
        full_name == Join(dirpath, e.name)
    IN  IF StateRow(st, id) = <<e.mtime>>
        THEN [id |-> id, hash |-> e.mtime, message |-> <<>>]
        ELSE [id |-> id, hash |-> e.mtime, message |-> <<full_name>>]

FsInit ==
    /\ tree \in Trees
    /\ state \in States
    /\ state0 = state
    /\ cancel = FALSE
    /\ f_pc = "start"
    /\ dir = <<>>
    /\ root = RootPath
    /\ dir_files = {}
    /\ rows = <<>>
    /\ saw_cancel = FALSE
    /\ former_state = <<>>
    /\ idx = 0
    /\ published = <<>>

\* the state of the scan when no scan is modelled
FsIdle ==
    /\ tree = [p \in {RootPath} |-> {}]
    /\ state = StateEmpty
    /\ state0 = StateEmpty
    /\ cancel = FALSE
    /\ f_pc = "idle"
    /\ dir = <<>>
    /\ root = RootPath
    /\ dir_files = {}
    /\ rows = <<>>
    /\ saw_cancel = FALSE
    /\ former_state = <<>>
    /\ idx = 0
    /\ published = <<>>

\* the token is cancelled by its owner while the call is in progress
FsCancel ==
    /\ f_pc \in {"start", "outer", "inner", "changes", "deletes"}
    /\ ~cancel
    /\ cancel' = TRUE
    /\ UNCHANGED <<tree, state, state0, f_pc, dir, root, dir_files, rows,
                   saw_cancel, former_state, idx, published>>
    /\ UNCHANGED <<tsVars, engVars, ladVars>>

\* check_and_report_files up to the first await of rowhash
FsStart ==
    /\ f_pc = "start"
    /\ IF tablehash # <<>> /\ state.tablehash = tablehash
       THEN f_pc' = "ok" /\ UNCHANGED dir
       ELSE f_pc' = "outer" /\ dir' = <<RootPath>>
    /\ UNCHANGED <<tree, state, state0, cancel, root, dir_files, rows,
                   saw_cancel, former_state, idx, published>>
    /\ UNCHANGED <<tsVars, engVars, ladVars>>

\* rowhash returns: std::mem::replace(state, State::empty())
RowhashReturns ==
    /\ f_pc' = "changes"
    /\ former_state' = state.rowhash
    /\ state' = StateEmpty
    /\ idx' = 0

\* a directory-stack loop with no is_cancelled check at its top
FsOuter_no_check ==
    /\ f_pc = "outer"
    /\ IF dir = <<>>
       THEN /\ RowhashReturns
            /\ UNCHANGED <<dir, root, dir_files, saw_cancel>>
       ELSE /\ dir' = SubSeq(dir, 1, Len(dir) - 1)
            /\ root' = dir[Len(dir)]
            /\ dir_files' = tree[dir[Len(dir)]]
            /\ f_pc' = "inner"
            /\ UNCHANGED <<saw_cancel, state, former_state, idx>>
    /\ UNCHANGED <<tree, state0, cancel, rows, published>>
    /\ UNCHANGED <<tsVars, engVars, ladVars>>

\* rowhash: `while let Some(root) = dir.pop()` up to read_dir
FsOuter ==
    /\ f_pc = "outer"
    /\ IF dir = <<>>
       THEN /\ RowhashReturns
            /\ UNCHANGED <<dir, root, dir_files, saw_cancel>>
       ELSE /\ dir' = SubSeq(dir, 1, Len(dir) - 1)
            /\ root' = dir[Len(dir)]
            /\ IF cancel
               THEN /\ saw_cancel' = TRUE
                    /\ RowhashReturns
                    /\ UNCHANGED dir_files
               ELSE /\ dir_files' = tree[dir[Len(dir)]]
                    /\ f_pc' = "inner"
                    /\ UNCHANGED <<saw_cancel, state, former_state, idx>>
    /\ UNCHANGED <<tree, state0, cancel, rows, published>>
    /\ UNCHANGED <<tsVars, engVars, ladVars>>

\* rowhash: one turn of `while let Some(file) = dir_files.next_entry()`
FsInner ==
    /\ f_pc = "inner"
    /\ IF dir_files = {}
       THEN /\ f_pc' = "outer"
            /\ UNCHANGED <<dir, dir_files, rows, saw_cancel>>
       ELSE \E file \in dir_files :
            /\ dir_files' = dir_files \ {file}
            /\ IF cancel
               THEN /\ saw_cancel' = TRUE
                    /\ f_pc' = "outer"
                    /\ UNCHANGED <<dir, rows>>
               ELSE /\ dir' = IF recursive /\ file.is_dir
                              THEN Append(dir, Join(root, file.name))
                              ELSE dir
                    /\ rows' = Append(rows, RowOf(state, root, file))
                    /\ UNCHANGED <<f_pc, saw_cancel>>
    /\ UNCHANGED <<tree, state, state0, cancel, root, former_state, idx,
                   published>>
    /\ UNCHANGED <<tsVars, engVars, ladVars>>

\* read_dir, next_entry or metadata returns an error and unwrap panics
FsIoError ==
    /\ f_pc \in {"outer", "inner"}
    /\ f_pc' = "panicked"
    /\ UNCHANGED <<tree, state, state0, cancel, dir, root, dir_files, rows,
                   saw_cancel, former_state, idx, published>>
    /\ UNCHANGED <<tsVars, engVars, ladVars>>

\* the message bodies: the full path of a changed entry, the id of a
\* deleted one
ChangeMessage(path) == [kind |-> "change", body |-> path]
DeleteMessage(id) == [kind |-> "delete", body |-> id]

\* check_and_report_files: one turn of `for (row, message) in changes`
FsChanges ==
    /\ f_pc = "changes"
    /\ IF idx = Len(rows)
       THEN /\ f_pc' = "deletes"
            /\ UNCHANGED <<state, former_state, idx, published>>
       ELSE LET row == rows[idx + 1]
                popped == IF row.id \in DOMAIN former_state
                          THEN <<former_state[row.id]>> ELSE <<>>
            IN  /\ idx' = idx + 1
                /\ state' = StateSetRow(state, row.id, row.hash)
                /\ former_state' = Remove(former_state, row.id)
                /\ IF popped # <<row.hash>> /\ row.message # <<>>
                   THEN \E sent \in BOOLEAN :
                        IF sent
                        THEN /\ published' =
                                  Append(published, ChangeMessage(row.message[1]))
                             /\ UNCHANGED f_pc
                        ELSE /\ f_pc' = "err"
                             /\ UNCHANGED published
                   ELSE UNCHANGED <<f_pc, published>>
    /\ UNCHANGED <<tree, state0, cancel, dir, root, dir_files, rows,
                   saw_cancel>>
    /\ UNCHANGED <<tsVars, engVars, ladVars>>

\* check_and_report_files: one turn of `for (id, _) in former_state.drain()`
FsDeletes ==
    /\ f_pc = "deletes"
    /\ IF former_state = <<>>
       THEN /\ f_pc' = "ok"
            /\ UNCHANGED <<former_state, published>>
       ELSE \E id \in DOMAIN former_state, sent \in BOOLEAN :
            /\ former_state' = Remove(former_state, id)
            /\ IF sent
               THEN /\ published' = Append(published, DeleteMessage(id))
                    /\ UNCHANGED f_pc
               ELSE /\ f_pc' = "err"
                    /\ UNCHANGED published
    /\ UNCHANGED <<tree, state, state0, cancel, dir, root, dir_files, rows,
                   saw_cancel, idx>>
    /\ UNCHANGED <<tsVars, engVars, ladVars>>

\* the task running the call is hard-aborted: the call is dropped at the
\* await it is suspended in, which is an await of rowhash or the
\* basic_publish of the turn in progress (state.set_row and pop_row of that
\* turn already done)
FsAbort ==
    /\ \/ /\ f_pc \in {"outer", "inner"}
          /\ UNCHANGED <<state, former_state, idx>>
       \/ /\ f_pc = "changes"
          /\ idx < Len(rows)
          /\ LET row == rows[idx + 1]
                 popped == IF row.id \in DOMAIN former_state
                           THEN <<former_state[row.id]>> ELSE <<>>
             IN  /\ popped # <<row.hash>> /\ row.message # <<>>
                 /\ idx' = idx + 1
                 /\ state' = StateSetRow(state, row.id, row.hash)
                 /\ former_state' = Remove(former_state, row.id)
       \/ /\ f_pc = "deletes"
          /\ \E id \in DOMAIN former_state :
                former_state' = Remove(former_state, id)
          /\ UNCHANGED <<state, idx>>
    /\ f_pc' = "aborted"
    /\ UNCHANGED <<tree, state0, cancel, dir, root, dir_files, rows,
                   saw_cancel, published>>
    /\ UNCHANGED <<tsVars, engVars, ladVars>>

FsNext ==
    \/ FsAbort
    \/ FsCancel
    \/ FsStart
    \/ FsOuter
    \/ FsInner
    \/ FsIoError
    \/ FsChanges
    \/ FsDeletes

----------------------------------------------------------------------------
(* rabbit-eye/src/engine.rs                                                *)

\* `for i in 1..15` in the work task
WorkIterEnd == 15

TaskIds == 1..MaxSpawns

\* CancellationToken::is_cancelled on the tokens of AppLifetime
is_cancelled(l, t) == l[t]

\* run_until_cancelled that looks at the token before it polls the future
run_until_cancelled_token_first(cancelled, ready) ==
    IF cancelled THEN "None" ELSE IF ready THEN "Some" ELSE "Pending"

\* CancellationToken::run_until_cancelled(fut), one poll of it: the future
\* is polled first and its output returned as Some; the token is looked at
\* only when the future is not ready
run_until_cancelled(cancelled, ready) ==
    IF ready THEN "Some" ELSE IF cancelled THEN "None" ELSE "Pending"

\* cancel that does not reach the child tokens
cancel_life_no_children(l, toks, t) ==
    <<[l EXCEPT ![t] = TRUE], toks>>

\* CancellationToken::cancel on a token of AppLifetime: the token and every
\* token below it (graceful below abort, natural and the iteration tokens
\* below graceful) become cancelled. Returns <<life, tokens>>.
cancel_life(l, toks, t) ==
    CASE t = "abort" ->
           <<[x \in DOMAIN l |-> TRUE], [n \in DOMAIN toks |-> TRUE]>>
      [] t = "graceful" ->
           <<[l EXCEPT !["graceful"] = TRUE, !["natural"] = TRUE],
             [n \in DOMAIN toks |-> TRUE]>>
      [] t = "natural" ->
           <<[l EXCEPT !["natural"] = TRUE], toks>>

\* cancel on an iteration token that reaches every iteration token
cancel_token_all(toks, n) == [m \in DOMAIN toks |-> TRUE]

\* CancellationToken::cancel on an iteration token (it has no children)
cancel_token(toks, n) == [toks EXCEPT ![n] = TRUE]

\* CancellationToken::child_token of graceful: the new token is token n
child_token(l, toks, n) ==
    toks @@ (n :> is_cancelled(l, "graceful"))

\* tokio::spawn of the work closure as task n
spawn(tks, n) == tks @@ (n :> [st |-> "running", i |-> 1])

\* JoinHandle::abort: a task that has not finished is torn down
abort(tks, n) ==
    IF tks[n].st = "running" THEN [tks EXCEPT ![n].st = "aborted"] ELSE tks

\* a JoinHandle is ready once its task has finished or has been aborted
Terminated(tks, n) == tks[n].st \in {"finished", "aborted"}

Running == {n \in DOMAIN tasks : tasks[n].st = "running"}

EngInit ==
    /\ life = [abort |-> FALSE, graceful |-> FALSE, natural |-> FALSE]
    /\ tokens = <<>>
    /\ s_pc = "ctrl_c"
    /\ s_elapsed = FALSE
    /\ l_pc = "while"
    /\ handle = <<>>
    /\ held = <<>>
    /\ tasks = <<>>
    /\ created = 0
    /\ joined = {}
    /\ prev = 0
    /\ close_ret = ""
    /\ drop_pc = ""

\* the engine when no engine run is modelled
EngIdle ==
    /\ life = [abort |-> FALSE, graceful |-> FALSE, natural |-> FALSE]
    /\ tokens = <<>>
    /\ s_pc = "idle"
    /\ s_elapsed = FALSE
    /\ l_pc = "idle"
    /\ handle = <<>>
    /\ held = <<>>
    /\ tasks = <<>>
    /\ created = 0
    /\ joined = {}
    /\ prev = 0
    /\ close_ret = ""
    /\ drop_pc = ""

(* AppLifetime::start: the supervisor task *)

\* ctrl_c() resolves; ctrlc_natural.cancel(); the first sleep starts
SupCtrlC ==
    /\ s_pc = "ctrl_c"
    /\ life' = cancel_life(life, tokens, "natural")[1]
    /\ tokens' = cancel_life(life, tokens, "natural")[2]
    /\ s_pc' = "sleep_natural"
    /\ s_elapsed' = FALSE
    /\ UNCHANGED <<l_pc, handle, held, tasks, created, joined, prev>>
    /\ UNCHANGED <<close_ret, drop_pc>>
    /\ UNCHANGED <<tsVars, fsVars, ladVars>>

\* the sleep(five_secs) the supervisor is waiting on elapses
SupSleepElapses ==
    /\ s_pc \in {"sleep_natural", "sleep_graceful"}
    /\ ~s_elapsed
    /\ s_elapsed' = TRUE
    /\ UNCHANGED <<life, tokens, s_pc, l_pc, handle, held, tasks, created,
                   joined, prev>>
    /\ UNCHANGED <<close_ret, drop_pc>>
    /\ UNCHANGED <<tsVars, fsVars, ladVars>>

\* a supervisor that cancels graceful without waiting for its sleep
SupGraceful_no_wait ==
    /\ s_pc = "sleep_natural"
    /\ life' = cancel_life(life, tokens, "graceful")[1]
    /\ tokens' = cancel_life(life, tokens, "graceful")[2]
    /\ s_pc' = "sleep_graceful"
    /\ s_elapsed' = FALSE
    /\ UNCHANGED <<l_pc, handle, held, tasks, created, joined, prev>>
    /\ UNCHANGED <<close_ret, drop_pc>>
    /\ UNCHANGED <<tsVars, fsVars, ladVars>>

\* a supervisor whose first wait has no sleep: it waits for graceful alone
SupGraceful_no_timer ==
    /\ s_pc = "sleep_natural"
    /\ is_cancelled(life, "graceful")
    /\ life' = cancel_life(life, tokens, "graceful")[1]
    /\ tokens' = cancel_life(life, tokens, "graceful")[2]
    /\ s_pc' = "sleep_graceful"
    /\ s_elapsed' = FALSE
    /\ UNCHANGED <<l_pc, handle, held, tasks, created, joined, prev>>
    /\ UNCHANGED <<close_ret, drop_pc>>
    /\ UNCHANGED <<tsVars, fsVars, ladVars>>

\* ctrlc_graceful.run_until_cancelled(sleep) returns; ctrlc_graceful.cancel()
SupGraceful ==
    /\ s_pc = "sleep_natural"
    /\ run_until_cancelled(is_cancelled(life, "graceful"), s_elapsed)
          # "Pending"
    /\ life' = cancel_life(life, tokens, "graceful")[1]
    /\ tokens' = cancel_life(life, tokens, "graceful")[2]
    /\ s_pc' = "sleep_graceful"
    /\ s_elapsed' = FALSE
    /\ UNCHANGED <<l_pc, handle, held, tasks, created, joined, prev>>
    /\ UNCHANGED <<close_ret, drop_pc>>
    /\ UNCHANGED <<tsVars, fsVars, ladVars>>

\* ctrlc_abort.run_until_cancelled(sleep) returns; ctrlc_abort.cancel()
SupAbort ==
    /\ s_pc = "sleep_graceful"
    /\ run_until_cancelled(is_cancelled(life, "abort"), s_elapsed)
          # "Pending"
    /\ life' = cancel_life(life, tokens, "abort")[1]
    /\ tokens' = cancel_life(life, tokens, "abort")[2]
    /\ s_pc' = "done"
    /\ s_elapsed' = FALSE
    /\ UNCHANGED <<l_pc, handle, held, tasks, created, joined, prev>>
    /\ UNCHANGED <<close_ret, drop_pc>>
    /\ UNCHANGED <<tsVars, fsVars, ladVars>>

(* the work task spawned by loop_until_cancel *)

\* one turn of `for i in 1..15`: the sleep of one second elapses, or the
\* task's token is cancelled; after the last turn the task finishes
TaskStep(n) ==
    /\ tasks[n].st = "running"
    /\ tasks' = IF tasks[n].i + 1 < WorkIterEnd
                THEN [tasks EXCEPT ![n].i = @ + 1]
                ELSE [tasks EXCEPT ![n].st = "finished"]
    /\ UNCHANGED <<life, tokens, s_pc, s_elapsed, l_pc, handle, held,
                   created, joined, prev>>
    /\ UNCHANGED <<close_ret, drop_pc>>
    /\ UNCHANGED <<tsVars, fsVars, ladVars>>

(* loop_until_cancel *)

\* `while !stop_loop.is_cancelled()`: into the tick wait, or out of the
\* loop into stop_work.run_until_cancelled(work.wait())
LoopWhile ==
    /\ l_pc = "while"
    /\ l_pc' = IF is_cancelled(life, "natural") THEN "wait" ELSE "tick"
    /\ UNCHANGED <<life, tokens, s_pc, s_elapsed, handle, held, tasks,
                   created, joined, prev>>
    /\ UNCHANGED <<close_ret, drop_pc>>
    /\ UNCHANGED <<tsVars, fsVars, ladVars>>

\* stop_loop.run_until_cancelled(interval.tick()) returns None, the tick
\* not having arrived: break
LoopTickCancelled ==
    /\ l_pc = "tick"
    /\ run_until_cancelled(is_cancelled(life, "natural"), FALSE) = "None"
    /\ l_pc' = "wait"
    /\ UNCHANGED <<life, tokens, s_pc, s_elapsed, handle, held, tasks,
                   created, joined, prev>>
    /\ UNCHANGED <<close_ret, drop_pc>>
    /\ UNCHANGED <<tsVars, fsVars, ladVars>>

\* finish_and_renew stores the spawned task n with its token in the slot
\* after a task it found there has completed or been aborted
Renew(tks, n) ==
    /\ tasks' = spawn(tks, n)
    /\ handle' = <<[handle |-> n, cancel |-> n]>>
    /\ held' = <<>>
    /\ l_pc' = "while"

\* a tick whose finish_and_renew spawns the new task at once, leaving the
\* task it found in the slot to itself
LoopTick_no_finish ==
    /\ l_pc = "tick"
    /\ run_until_cancelled(is_cancelled(life, "natural"), TRUE) = "Some"
    /\ created < MaxSpawns
    /\ created' = created + 1
    /\ tokens' = child_token(life, tokens, created + 1)
    /\ prev' = IF handle # <<>> THEN handle[1].handle ELSE 0
    /\ Renew(tasks, created + 1)
    /\ UNCHANGED <<life, s_pc, s_elapsed, joined>>
    /\ UNCHANGED <<close_ret, drop_pc>>
    /\ UNCHANGED <<tsVars, fsVars, ladVars>>

\* a tick whose finish_and_renew aborts the task it found in the slot at
\* once, with no cancel and no grace period
LoopTick_abort_at_once ==
    /\ l_pc = "tick"
    /\ run_until_cancelled(is_cancelled(life, "natural"), TRUE) = "Some"
    /\ created < MaxSpawns
    /\ created' = created + 1
    /\ tokens' = child_token(life, tokens, created + 1)
    /\ prev' = IF handle # <<>> THEN handle[1].handle ELSE 0
    /\ Renew(IF handle # <<>> THEN abort(tasks, handle[1].handle) ELSE tasks,
             created + 1)
    /\ UNCHANGED <<life, s_pc, s_elapsed, joined>>
    /\ UNCHANGED <<close_ret, drop_pc>>
    /\ UNCHANGED <<tsVars, fsVars, ladVars>>

\* the tick arrives and run_until_cancelled returns it, whatever the token
\* says: stop_work.child_token(), then finish_and_renew up to
\* its select (a task is in the slot) or to its end (the slot is empty)
LoopTick ==
    /\ l_pc = "tick"
    /\ run_until_cancelled(is_cancelled(life, "natural"), TRUE) = "Some"
    /\ created < MaxSpawns
    /\ created' = created + 1
    /\ IF handle # <<>>
       THEN /\ held' = handle
            /\ handle' = <<>>
            /\ prev' = handle[1].handle
            /\ tokens' = cancel_token(child_token(life, tokens, created + 1),
                                      handle[1].cancel)
            /\ l_pc' = "renew_select"
            /\ UNCHANGED tasks
       ELSE /\ tokens' = child_token(life, tokens, created + 1)
            /\ prev' = 0
            /\ Renew(tasks, created + 1)
    /\ UNCHANGED <<life, s_pc, s_elapsed, joined>>
    /\ UNCHANGED <<close_ret, drop_pc>>
    /\ UNCHANGED <<tsVars, fsVars, ladVars>>

\* finish_and_renew, select: `_ = &mut handle`, the old task is done
LoopRenewJoined ==
    /\ l_pc = "renew_select"
    /\ Terminated(tasks, held[1].handle)
    /\ Renew(tasks, created)
    /\ UNCHANGED <<life, tokens, s_pc, s_elapsed, created, joined, prev>>
    /\ UNCHANGED <<close_ret, drop_pc>>
    /\ UNCHANGED <<tsVars, fsVars, ladVars>>

\* finish_and_renew whose timeout branch does not abort the old task
LoopRenewTimeout_no_abort ==
    /\ l_pc = "renew_select"
    /\ Renew(tasks, created)
    /\ UNCHANGED <<life, tokens, s_pc, s_elapsed, created, joined, prev>>
    /\ UNCHANGED <<close_ret, drop_pc>>
    /\ UNCHANGED <<tsVars, fsVars, ladVars>>

\* finish_and_renew, select: sleep(grace_period) elapses, handle.abort()
LoopRenewTimeout ==
    /\ l_pc = "renew_select"
    /\ Renew(abort(tasks, held[1].handle), created)
    /\ UNCHANGED <<life, tokens, s_pc, s_elapsed, created, joined, prev>>
    /\ UNCHANGED <<close_ret, drop_pc>>
    /\ UNCHANGED <<tsVars, fsVars, ladVars>>

\* work.wait() is ready: the slot is empty or the task in it is done
WaitReady == handle = <<>> \/ Terminated(tasks, handle[1].handle)

\* a wait whose abandonment aborts the task in the slot
LoopWaitCancelled_aborts ==
    /\ l_pc = "wait"
    /\ run_until_cancelled(is_cancelled(life, "graceful"), WaitReady) = "None"
    /\ l_pc' = "close"
    /\ tasks' = abort(tasks, handle[1].handle)
    /\ UNCHANGED <<life, tokens, s_pc, s_elapsed, handle, held,
                   created, joined, prev>>
    /\ UNCHANGED <<close_ret, drop_pc>>
    /\ UNCHANGED <<tsVars, fsVars, ladVars>>

\* stop_work.run_until_cancelled(work.wait()) returns None
LoopWaitCancelled ==
    /\ l_pc = "wait"
    /\ run_until_cancelled(is_cancelled(life, "graceful"), WaitReady) = "None"
    /\ l_pc' = "close"
    /\ UNCHANGED <<life, tokens, s_pc, s_elapsed, handle, held, tasks,
                   created, joined, prev>>
    /\ UNCHANGED <<close_ret, drop_pc>>
    /\ UNCHANGED <<tsVars, fsVars, ladVars>>

\* work.wait() returns: the slot is empty, or the held task is done and
\* its JoinHandle has returned its output
LoopWaitDone ==
    /\ l_pc = "wait"
    /\ run_until_cancelled(is_cancelled(life, "graceful"), WaitReady) = "Some"
    /\ joined' = IF handle = <<>> THEN joined
                 ELSE joined \cup {handle[1].handle}
    /\ l_pc' = "close"
    /\ UNCHANGED <<life, tokens, s_pc, s_elapsed, handle, held, tasks,
                   created, prev>>
    /\ UNCHANGED <<close_ret, drop_pc>>
    /\ UNCHANGED <<tsVars, fsVars, ladVars>>

\* close_with_abort_after up to its select: the slot is emptied and the
\* token cancelled; polling a JoinHandle that already returned its output
\* panics
LoopClose ==
    /\ l_pc = "close"
    /\ IF handle = <<>>
       THEN /\ l_pc' = "stopped"
            /\ close_ret' = "SomeOk"
            /\ UNCHANGED <<handle, held, tokens>>
       ELSE /\ handle' = <<>>
            /\ held' = handle
            /\ tokens' = cancel_token(tokens, handle[1].cancel)
            /\ l_pc' = IF handle[1].handle \in joined
                       THEN "panicked" ELSE "close_select"
            /\ UNCHANGED close_ret
    /\ UNCHANGED <<life, s_pc, s_elapsed, tasks, created, joined, prev>>
    /\ UNCHANGED drop_pc
    /\ UNCHANGED <<tsVars, fsVars, ladVars>>

\* close_with_abort_after, select: waiter.wait() returns Some(r)
LoopCloseJoined ==
    /\ l_pc = "close_select"
    /\ Terminated(tasks, held[1].handle)
    /\ joined' = joined \cup {held[1].handle}
    /\ held' = <<>>
    /\ l_pc' = "stopped"
    /\ close_ret' = "Some"
    /\ UNCHANGED <<life, tokens, s_pc, s_elapsed, handle, tasks, created,
                   prev>>
    /\ UNCHANGED drop_pc
    /\ UNCHANGED <<tsVars, fsVars, ladVars>>

\* close_with_abort_after, select: sleep(abort_after) elapses; the waiter
\* is dropped, which aborts the task
LoopCloseTimeout ==
    /\ l_pc = "close_select"
    /\ tasks' = abort(tasks, held[1].handle)
    /\ held' = <<>>
    /\ l_pc' = "stopped"
    /\ close_ret' = "None"
    /\ UNCHANGED <<life, tokens, s_pc, s_elapsed, handle, created, joined,
                   prev>>
    /\ UNCHANGED drop_pc
    /\ UNCHANGED <<tsVars, fsVars, ladVars>>

\* run_until_abort dropping a RenewableWorker that has no Drop: the task in
\* its slot is left alone
RunAbort_no_drop ==
    /\ l_pc \in {"tick", "renew_select", "wait", "close_select"}
    /\ is_cancelled(life, "abort")
    /\ l_pc' = "dropped"
    /\ drop_pc' = l_pc
    /\ tasks' = IF l_pc = "close_select" THEN abort(tasks, held[1].handle)
                ELSE tasks
    /\ handle' = <<>>
    /\ held' = <<>>
    /\ UNCHANGED <<life, tokens, s_pc, s_elapsed, created, joined, prev>>
    /\ UNCHANGED close_ret
    /\ UNCHANGED <<tsVars, fsVars, ladVars>>

\* run_until_abort: abort.cancelled() wins the select and the loop future
\* is dropped where it waits. Dropping the RenewableWorker aborts the task
\* in its slot; dropping the waiter of close_with_abort_after aborts its
\* task; dropping the JoinHandle finish_and_renew took out of the slot
\* detaches its task.
RunAbort ==
    /\ l_pc \in {"tick", "renew_select", "wait", "close_select"}
    /\ is_cancelled(life, "abort")
    /\ l_pc' = "dropped"
    /\ drop_pc' = l_pc
    /\ tasks' = IF l_pc = "close_select" THEN abort(tasks, held[1].handle)
                ELSE IF handle # <<>> THEN abort(tasks, handle[1].handle)
                ELSE tasks
    /\ handle' = <<>>
    /\ held' = <<>>
    /\ UNCHANGED <<life, tokens, s_pc, s_elapsed, created, joined, prev>>
    /\ UNCHANGED close_ret
    /\ UNCHANGED <<tsVars, fsVars, ladVars>>

EngNext ==
    \/ SupCtrlC
    \/ SupSleepElapses
    \/ SupGraceful
    \/ SupAbort
    \/ \E n \in DOMAIN tasks : TaskStep(n)
    \/ LoopWhile
    \/ LoopTickCancelled
    \/ LoopTick
    \/ LoopRenewJoined
    \/ LoopRenewTimeout
    \/ LoopWaitCancelled
    \/ LoopWaitDone
    \/ LoopClose
    \/ LoopCloseJoined
    \/ LoopCloseTimeout
    \/ RunAbort

----------------------------------------------------------------------------
(* rabbit-eye/src/lifetime.rs : try_graceful_shutdown                      *)

\* the values a task may return
Outputs == {1, 2}

\* the call is made with the JoinHandle of a task that is running or has
\* already ended (returned its output, or panicked), and a live token
LadInit ==
    /\ g_pc = "select1"
    /\ g_f \in {[st |-> st, i |-> 0, out |-> o] :
                 st \in {"running", "finished", "panicked"}, o \in Outputs}
    /\ g_token = FALSE
    /\ g_elapsed = FALSE
    /\ g_ret = <<>>
    /\ g_at_elapse = <<>>

\* the ladder when no call of try_graceful_shutdown is modelled
LadIdle ==
    /\ g_pc = "idle"
    /\ g_f = [st |-> "finished", i |-> 0, out |-> 1]
    /\ g_token = FALSE
    /\ g_elapsed = FALSE
    /\ g_ret = <<>>
    /\ g_at_elapse = <<>>

\* the task does a piece of its work
LadTaskStep ==
    /\ g_f.st = "running"
    /\ g_f.i < MaxLadderWork
    /\ g_f' = [g_f EXCEPT !.i = @ + 1]
    /\ UNCHANGED <<g_pc, g_token, g_elapsed, g_ret, g_at_elapse>>
    /\ UNCHANGED <<tsVars, fsVars, engVars>>

\* the task ends on its own, whether or not it looked at the token: it
\* returns its output or panics
LadTaskEnds ==
    /\ g_f.st = "running"
    /\ \E st \in {"finished", "panicked"} : g_f' = [g_f EXCEPT !.st = st]
    /\ UNCHANGED <<g_pc, g_token, g_elapsed, g_ret, g_at_elapse>>
    /\ UNCHANGED <<tsVars, fsVars, engVars>>

\* the sleep(five_secs) of the select in progress elapses
LadSleepElapses ==
    /\ g_pc \in {"select1", "select2"}
    /\ ~g_elapsed
    /\ g_elapsed' = TRUE
    /\ g_at_elapse' = Append(g_at_elapse, g_f.st)
    /\ UNCHANGED <<g_pc, g_f, g_token, g_ret>>
    /\ UNCHANGED <<tsVars, fsVars, engVars>>

\* `result = &mut f => return Ok(result.map_err(|_| ())?)` in either select
LadJoined ==
    /\ g_pc \in {"select1", "select2"}
    /\ g_f.st \in {"finished", "panicked"}
    /\ g_ret' = IF g_f.st = "finished" THEN <<"Ok", g_f.out>> ELSE <<"Err">>
    /\ g_pc' = "returned"
    /\ UNCHANGED <<g_f, g_token, g_elapsed, g_at_elapse>>
    /\ UNCHANGED <<tsVars, fsVars, engVars>>

\* a first select that gives up without its sleep having elapsed
LadTimeout1_no_wait ==
    /\ g_pc = "select1"
    /\ g_token' = TRUE
    /\ g_pc' = "select2"
    /\ g_elapsed' = FALSE
    /\ UNCHANGED <<g_f, g_ret, g_at_elapse>>
    /\ UNCHANGED <<tsVars, fsVars, engVars>>

\* the sleep branch of the first select is taken; cancel.cancel(); the
\* second select starts
LadTimeout1 ==
    /\ g_pc = "select1"
    /\ g_elapsed
    /\ g_token' = TRUE
    /\ g_pc' = "select2"
    /\ g_elapsed' = FALSE
    /\ UNCHANGED <<g_f, g_ret, g_at_elapse>>
    /\ UNCHANGED <<tsVars, fsVars, engVars>>

\* the sleep branch of the second select is taken; f.abort(); Err(())
LadTimeout2 ==
    /\ g_pc = "select2"
    /\ g_elapsed
    /\ g_f' = IF g_f.st = "running" THEN [g_f EXCEPT !.st = "aborted"] ELSE g_f
    /\ g_ret' = <<"Err">>
    /\ g_pc' = "returned"
    /\ UNCHANGED <<g_token, g_elapsed, g_at_elapse>>
    /\ UNCHANGED <<tsVars, fsVars, engVars>>

LadNext ==
    \/ LadTaskStep
    \/ LadTaskEnds
    \/ LadSleepElapses
    \/ LadJoined
    \/ LadTimeout1
    \/ LadTimeout2

----------------------------------------------------------------------------
(* Specifications                                                          *)

InitTable == TsInit /\ FsIdle /\ EngIdle /\ LadIdle

SpecTable == InitTable /\ [][TsNext]_vars

InitFs == FsInit /\ TsIdle /\ EngIdle /\ LadIdle

SpecFs == InitFs /\ [][FsNext]_vars

InitEngine == EngInit /\ TsIdle /\ FsIdle /\ LadIdle

SpecEngine == InitEngine /\ [][EngNext]_vars

\* the runtime keeps polling the supervisor task and the future run()
\* awaits, and every sleep they wait on elapses; nothing is assumed of the
\* shutdown signal or of the work tasks
SupFair ==
    /\ WF_vars(SupSleepElapses)
    /\ WF_vars(SupGraceful)
    /\ WF_vars(SupAbort)

LoopFair ==
    /\ WF_vars(LoopWhile)
    /\ WF_vars(LoopTickCancelled)
    /\ WF_vars(LoopRenewJoined \/ LoopRenewTimeout)
    /\ WF_vars(LoopWaitCancelled \/ LoopWaitDone)
    /\ WF_vars(LoopClose)
    /\ WF_vars(LoopCloseJoined \/ LoopCloseTimeout)
    /\ WF_vars(RunAbort)

InitLadder == LadInit /\ TsIdle /\ FsIdle /\ EngIdle

SpecLadder == InitLadder /\ [][LadNext]_vars

SpecEngineFair == InitEngine /\ [][EngNext]_vars /\ SupFair /\ LoopFair

----------------------------------------------------------------------------
(* Properties of the table state                                           *)

\* how often change c occurs in sequence seq
Count(seq, c) == Cardinality({i \in 1..Len(seq) : seq[i] = c})

\* the keys passed to set_row during the scan
SetKeys == {calls[i][1] : i \in 1..Len(calls)}

\* the hash key k had just before call i: the one of the last earlier call
\* for k, else the one it was constructed with (<<>> when there is none)
HashBefore(i) ==
    LET k == calls[i][1]
        earlier == {j \in 1..(i - 1) : calls[j][1] = k}
    IN  IF earlier # {}
        THEN <<calls[CHOOSE j \in earlier : \A l \in earlier : l <= j][2]>>
        ELSE IF k \in DOMAIN rows0 THEN <<rows0[k]>> ELSE <<>>

\* key k was stored with another hash when some call passed it
HashDiffered(k) ==
    \E i \in 1..Len(calls) :
        /\ calls[i][1] = k
        /\ HashBefore(i) # <<>>
        /\ HashBefore(i) # <<calls[i][2]>>

\* the changes emitted for key k
EmittedFor(k) == SelectSeq(emitted, LAMBDA c : c.key = k)

\* C4: after drain(true) the multiset of emitted changes is: one New(k) for
\* each key k newly inserted, one Update(k) for each stored key k whose hash
\* differed, one Delete(k) for each key k stored before the scan and not set.
C4_DrainTrueMultiset ==
    (ts_pc = "drained" /\ flag) =>
        \A k \in Keys :
            /\ Count(emitted, New(k)) =
                 (IF k \notin DOMAIN rows0 /\ k \in SetKeys THEN 1 ELSE 0)
            /\ Count(emitted, Update(k)) =
                 (IF HashDiffered(k) THEN 1 ELSE 0)
            /\ Count(emitted, Delete(k)) =
                 (IF k \in DOMAIN rows0 /\ k \notin SetKeys THEN 1 ELSE 0)

\* C5: drain(false) emits no Delete whatever set_row calls were made, and
\* with no set_row call it emits nothing however many rows are stored.
C5_DrainFalseNoDelete ==
    (ts_pc = "drained" /\ ~flag) =>
        /\ \A i \in 1..Len(emitted) : emitted[i].tag # "Delete"
        /\ (calls = <<>> => emitted = <<>>)

C5_Witness ==
    /\ ts_pc = "drained" /\ ~flag
    /\ calls # <<>>
    /\ \E k \in DOMAIN rows0 : k \notin SetKeys

\* C6: after drain(true), Delete(k) is emitted exactly once for each key k
\* stored before the scan and not passed to set_row, and never for a key
\* that was passed to set_row.
C6_DrainTrueDeletes ==
    (ts_pc = "drained" /\ flag) =>
        \A k \in Keys :
            Count(emitted, Delete(k)) =
                (IF k \in DOMAIN rows0 /\ k \notin SetKeys THEN 1 ELSE 0)

C6_Witness ==
    /\ ts_pc = "drained" /\ flag
    /\ \E k \in DOMAIN rows0 : k \notin SetKeys
    /\ \E k \in DOMAIN rows0 : k \in SetKeys /\ Count(ts.changes, None(k)) > 0

\* C7: each set_row(key, hash) call appends exactly one pending entry:
\* New(key) with key inserted when key is not in rows, None(key) with rows
\* unchanged when key is stored with an equal hash, Update(key) with the
\* stored hash overwritten when key is stored with a different hash.
C7_SetRowClassifies ==
    [][Len(calls') = Len(calls) + 1 =>
        LET key == calls'[Len(calls')][1]
            hash == calls'[Len(calls')][2]
        IN  /\ Len(ts'.changes) = Len(ts.changes) + 1
            /\ SubSeq(ts'.changes, 1, Len(ts.changes)) = ts.changes
            /\ IF key \notin DOMAIN ts.rows
               THEN /\ ts'.changes[Len(ts'.changes)] = New(key)
                    /\ DOMAIN ts'.rows = DOMAIN ts.rows \cup {key}
                    /\ ts'.rows[key] = hash
                    /\ \A k \in DOMAIN ts.rows : ts'.rows[k] = ts.rows[k]
               ELSE IF ts.rows[key] = hash
               THEN /\ ts'.changes[Len(ts'.changes)] = None(key)
                    /\ ts'.rows = ts.rows
               ELSE /\ ts'.changes[Len(ts'.changes)] = Update(key)
                    /\ ts'.rows = [ts.rows EXCEPT ![key] = hash]
    ]_vars

C7_Witness ==
    /\ Len(calls) = 3
    /\ \E k1, k2, k3 \in Keys :
          ts.changes = <<New(k1), Update(k2), None(k3)>>

\* C8: set_row(k, h1); set_row(k, h2) with h1 # h2 on a fresh state drains
\* to a single New(k), with rows holding h2 for k.
C8_FreshTwoHashesSingleNew ==
    (/\ ts_pc = "drained"
     /\ rows0 = <<>>
     /\ Len(calls) = 2
     /\ calls[1][1] = calls[2][1]
     /\ calls[1][2] # calls[2][2]) =>
        /\ emitted = <<New(calls[1][1])>>
        /\ ts.rows[calls[1][1]] = calls[2][2]

\* C9: set_row(k, h); set_row(k, h) on a fresh state drains to a single
\* New(k): the repeated call with an equal hash adds no emitted change.
C9_FreshSameHashSingleNew ==
    (/\ ts_pc = "drained"
     /\ rows0 = <<>>
     /\ Len(calls) = 2
     /\ calls[1] = calls[2]) =>
        emitted = <<New(calls[1][1])>>

C9_Witness ==
    /\ ts_pc = "drained"
    /\ rows0 = <<>>
    /\ Len(calls) = 2
    /\ calls[1] = calls[2]
    /\ flag

\* C10: whatever set_row calls a scan made, drain emits at most one change
\* for each key, and that change reflects the last observation of the key:
\* none when the last call for the key was classified None.
C10_OneChangePerKey ==
    ts_pc = "drained" =>
        \A k \in Keys :
            /\ Len(EmittedFor(k)) <= 1
            /\ \A i \in 1..Len(calls) :
                  (/\ calls[i][1] = k
                   /\ \A j \in (i + 1)..Len(calls) : calls[j][1] # k
                   /\ HashBefore(i) = <<calls[i][2]>>) => EmittedFor(k) = <<>>

\* what call i observed: New when the key was not stored, None when it was
\* stored with the hash passed, Update when it was stored with another hash
Classified ==
    [i \in 1..Len(calls) |->
        IF HashBefore(i) = <<>> THEN New(calls[i][1])
        ELSE IF HashBefore(i) = <<calls[i][2]>> THEN None(calls[i][1])
        ELSE Update(calls[i][1])]

\* the New and Update observations of the scan, in call order
Observed == SelectSeq(Classified, LAMBDA c : c.tag # "None")

C12_NoneEmitsNothing ==
    ts_pc = "drained" =>
        /\ \A i \in 1..Len(emitted) : emitted[i].tag # "None"
        /\ Len(SelectSeq(emitted, LAMBDA c : c.tag # "Delete")) =
              Cardinality({i \in 1..Len(calls) : Classified[i].tag # "None"})
        /\ (/\ flag
            /\ SetKeys = DOMAIN rows0
            /\ \A i \in 1..Len(calls) : calls[i][2] = rows0[calls[i][1]])
              => emitted = <<>>

C12_Witness ==
    /\ ts_pc = "drained" /\ flag
    /\ Cardinality(DOMAIN rows0) = 2
    /\ SetKeys = DOMAIN rows0
    /\ \A i \in 1..Len(calls) : calls[i][2] = rows0[calls[i][1]]
    /\ emitted = <<>>

----------------------------------------------------------------------------
(* Properties of the filesystem scan iteration                             *)

\* the ids rowhash recorded a row for
VisitedIds == {rows[i].id : i \in 1..Len(rows)}

\* C3: when the scan was cancelled partway (after it had recorded a row), no delete message is published
\* for a key the scan did not visit, and when the iteration has ended such
\* a key is still tracked in the state with its hash.
C3_CancelledScanInfersNoDeletion ==
    (saw_cancel /\ rows # <<>>) =>
        \A id \in DOMAIN state0.rowhash \ VisitedIds :
            /\ \A i \in 1..Len(published) : published[i] # DeleteMessage(id)
            /\ f_pc = "ok" =>
                  /\ id \in DOMAIN state.rowhash
                  /\ state.rowhash[id] = state0.rowhash[id]

\* the entries of the tree, each with the directory it lies in
Entries == UNION {{<<p, e>> : e \in tree[p]} : p \in DOMAIN tree}

\* the ids the entries of the tree are recorded under
EntryIds == {file_hash(pe[2].name) : pe \in Entries}

\* the rowhash map a completed iteration over `tree` leaves: the root is
\* read before the directory below it, and a later row overwrites an
\* earlier row with the same id
ScannedRows ==
    [id \in EntryIds |->
        IF \E pe \in Entries : pe[1] = SubPath /\ file_hash(pe[2].name) = id
        THEN (CHOOSE pe \in Entries :
                 pe[1] = SubPath /\ file_hash(pe[2].name) = id)[2].mtime
        ELSE (CHOOSE pe \in Entries : file_hash(pe[2].name) = id)[2].mtime]

\* C21: when the iteration was discarded (the scan panicked on an I/O
\* error, or the task was hard-aborted before the call returned), the state
\* is the one the iteration began with.
C21_DiscardedKeepsState ==
    f_pc \in {"panicked", "aborted"} => state = state0

\* C22: when the scan completed and the iteration returned Ok, the change
\* message of an entry is published once when the entry is new or its hash
\* differs from the stored one and never otherwise, a delete message is
\* published once for each stored id with no entry and for no other id, and
\* when the stored state is the one a completed iteration over this very
\* tree left, nothing is published.
C22_OneMessagePerChange ==
    (f_pc = "ok" /\ ~saw_cancel) =>
        /\ \A pe \in Entries :
              Count(published, ChangeMessage(Join(pe[1], pe[2].name))) =
                (IF StateRow(state0, file_hash(pe[2].name)) # <<pe[2].mtime>>
                 THEN 1 ELSE 0)
        /\ \A id \in RowIds :
              Count(published, DeleteMessage(id)) =
                (IF id \in DOMAIN state0.rowhash \ EntryIds THEN 1 ELSE 0)
        /\ state0.rowhash = ScannedRows => published = <<>>

\* C23: entries with different full paths are recorded under different
\* keys: after a completed iteration the state tracks as many keys as the
\* tree has entries.
C23_KeyIsFullPath ==
    (f_pc = "ok" /\ ~saw_cancel) =>
        Cardinality(DOMAIN state.rowhash) = Cardinality(Entries)

\* C24: after a publish failure ended the iteration, every change of the
\* iteration whose message was not published is one the next iteration
\* detects again: the state does not hold the entry's new hash, and an id
\* whose deletion was not published is still tracked.
C24_UnpublishedDetectedAgain ==
    f_pc = "err" =>
        /\ \A i \in 1..Len(rows) :
              (/\ rows[i].message # <<>>
               /\ Count(published, ChangeMessage(rows[i].message[1])) = 0)
                => StateRow(state, rows[i].id) # <<rows[i].hash>>
        /\ \A id \in DOMAIN state0.rowhash \ EntryIds :
              Count(published, DeleteMessage(id)) = 0
                => id \in DOMAIN state.rowhash

----------------------------------------------------------------------------
(* Properties of the engine loop and the renewable worker                  *)

\* C1: at most one work task is running in every state, and a task was
\* spawned only after every task spawned before it had completed or been
\* aborted.
C1_AtMostOneRunning ==
    /\ Cardinality(Running) <= 1
    /\ \A n, m \in DOMAIN tasks : n < m => Terminated(tasks, n)

C1_Witness ==
    \E n, m \in DOMAIN tasks :
        /\ m = n + 1
        /\ tasks[n].st = "aborted"
        /\ tasks[m].st = "running"
        /\ l_pc = "while"

\* C2: when finish_and_renew has returned, the task it found in the slot is
\* completed or aborted, and the slot holds the new task with its token.
C2_AfterFinishAndRenew ==
    (l_pc = "while" /\ created > 0) =>
        /\ handle = <<[handle |-> created, cancel |-> created]>>
        /\ created \in DOMAIN tasks
        /\ prev # 0 => Terminated(tasks, prev)

C2_Witness ==
    /\ l_pc = "while"
    /\ prev # 0
    /\ tasks[prev].st = "aborted"
    /\ handle = <<[handle |-> created, cancel |-> created]>>
    /\ tasks[created].st = "running"

\* C13: while the supervisor still waits for the shutdown signal none of
\* natural, graceful, abort is cancelled; natural is cancelled by the step
\* that takes the signal, with graceful and abort still not cancelled;
\* the supervisor leaves its first wait and cancels graceful only when the
\* 5 s sleep has elapsed or graceful was already cancelled; it leaves its
\* second wait and cancels abort only when the further 5 s sleep has
\* elapsed or abort was already cancelled.
C13_LadderOrder ==
    /\ [](s_pc = "ctrl_c" =>
            ~life.natural /\ ~life.graceful /\ ~life.abort)
    /\ [][/\ (~life.natural /\ life'.natural) =>
               (s_pc = "ctrl_c" /\ ~life'.graceful /\ ~life'.abort)
          /\ (~life.graceful /\ life'.graceful) =>
               (s_pc = "sleep_natural" /\ life.natural /\ ~life'.abort)
          /\ (s_pc = "sleep_natural" /\ s_pc' # s_pc) =>
               ((s_elapsed \/ life.graceful) /\ life'.graceful)
          /\ (~life.abort /\ life'.abort) =>
               (s_pc = "sleep_graceful" /\ life.graceful)
          /\ (s_pc = "sleep_graceful" /\ s_pc' # s_pc) =>
               ((s_elapsed \/ life.abort) /\ life'.abort)
       ]_vars

C13_Witness ==
    /\ s_pc = "done"
    /\ life.natural /\ life.graceful /\ life.abort
    /\ l_pc = "dropped"

\* C14: whenever natural is cancelled graceful is eventually cancelled,
\* and whenever graceful is cancelled abort is eventually cancelled, the
\* supervisor being polled and its sleeps elapsing.
C14_LadderCompletes ==
    /\ life.natural ~> life.graceful
    /\ life.graceful ~> life.abort

C14_Witness ==
    /\ s_pc = "done"
    /\ life.abort
    /\ l_pc = "stopped"

\* C15: in every reachable state abort cancelled implies graceful
\* cancelled, graceful cancelled implies natural cancelled, and graceful
\* cancelled implies every iteration token (each a child of graceful) is
\* cancelled.
C15_TokenTree ==
    /\ life.abort => life.graceful
    /\ life.graceful => life.natural
    /\ life.graceful => \A n \in DOMAIN tokens : tokens[n]

C15_Witness ==
    /\ life.graceful /\ ~life.abort
    /\ handle # <<>>
    /\ tokens[handle[1].cancel]
    /\ tasks[handle[1].handle].st = "running"

\* a token that is cancelled is cancelled after every step
TokensStayCancelled ==
    /\ \A t \in DOMAIN life : life[t] => life'[t]
    /\ \A n \in DOMAIN tokens : tokens[n] => (n \in DOMAIN tokens' /\ tokens'[n])

C17_NoSpawnAfterNatural ==
    [][life.natural => DOMAIN tasks' = DOMAIN tasks]_vars

\* C18: when the RenewableWorker is dropped while its slot holds a task,
\* that task is done after the drop, aborted if it had not finished, and no
\* work task is left running.
C18_DropAbortsSlotTask ==
    [][(l_pc # "dropped" /\ l_pc' = "dropped" /\ handle # <<>>) =>
         /\ Terminated(tasks', handle[1].handle)
         /\ tasks[handle[1].handle].st = "running"
              => tasks'[handle[1].handle].st = "aborted"
         /\ \A n \in DOMAIN tasks' : tasks'[n].st # "running"
    ]_vars

C18_Witness ==
    /\ l_pc = "dropped"
    /\ drop_pc \in {"tick", "wait"}
    /\ created > 0
    /\ tasks[created].st = "aborted"

\* C19: close_with_abort_after cancels the token of the task it took out of
\* the slot; called on a task it returns, never panics: Some(result) only
\* for a task that finished, None only with the task done (aborted unless
\* it finished at that moment); with an empty slot it returns Some(Ok).
C19_CloseWithAbortAfter ==
    /\ (l_pc \in {"close_select", "panicked"} /\ held # <<>>)
          => tokens[held[1].cancel]
    /\ l_pc # "panicked"
    /\ close_ret = "Some" => (created > 0 /\ tasks[created].st = "finished")
    /\ close_ret = "None" => (created > 0 /\ Terminated(tasks, created))
    /\ close_ret = "SomeOk" => created = 0

\* C20: after the shutdown signal has fired (natural is cancelled), run()
\* eventually returns: the loop ends normally or run_until_abort drops it.
C20_RunReturns ==
    life.natural ~> (l_pc \in {"stopped", "dropped"})

\* C25: when run_until_abort has returned None (abort was cancelled and the
\* loop was dropped where it waited), no work task is left running.
C25_NoTaskLeftRunning ==
    l_pc = "dropped" => \A n \in DOMAIN tasks : tasks[n].st # "running"

\* C26: a task that has finished is never aborted, and finish_and_renew
\* aborts a task only in the timeout branch of its select, the task being
\* the one it took out of the slot, with that task's token cancelled and
\* the task not finished.
C26_AbortOnlyAfterGrace ==
    [][/\ \A n \in DOMAIN tasks :
            tasks[n].st = "finished" => tasks'[n].st = "finished"
       /\ (l_pc \in {"tick", "renew_select"} /\ l_pc' \in {"renew_select", "while"})
            => \A n \in DOMAIN tasks :
                 (tasks[n].st = "running" /\ tasks'[n].st = "aborted") =>
                     /\ l_pc = "renew_select"
                     /\ held # <<>>
                     /\ n = held[1].handle
                     /\ tokens[held[1].cancel]
    ]_vars

C26_Witness ==
    /\ l_pc = "while"
    /\ created = 3
    /\ tasks[1].st = "finished"
    /\ tasks[2].st = "aborted"
    /\ tokens[2]
    /\ ~life.natural

\* C27: the loop never panics, and a JoinHandle that finish_and_renew or
\* close_with_abort_after awaits is one whose output has not been taken.
C27_NoAwaitAfterJoin ==
    /\ l_pc # "panicked"
    /\ l_pc \in {"renew_select", "close_select"} => held[1].handle \notin joined

\* C28: when the wait for the work is abandoned because graceful is
\* cancelled, that step aborts no task, and from then on the task is
\* aborted only by the timeout branch of close_with_abort_after.
C28_AbandonedWaitNoAbort ==
    [][(life.graceful /\ l_pc \in {"wait", "close", "close_select"}) =>
         /\ (l_pc = "wait" /\ l_pc' = "close") => tasks' = tasks
         /\ (\E n \in DOMAIN tasks :
                tasks[n].st = "running" /\ tasks'[n].st = "aborted")
              => (l_pc = "close_select" /\ l_pc' = "stopped")
    ]_vars

\* C28 as the code has it: the abandoned wait aborts no task, and from then
\* on the task is aborted only by the timeout branch of
\* close_with_abort_after or, once abort is cancelled, by run_until_abort
\* dropping the loop.
C28_AbandonedWaitNoAbortUntilDrop ==
    [][(life.graceful /\ l_pc \in {"wait", "close", "close_select"}) =>
         /\ (l_pc = "wait" /\ l_pc' = "close") => tasks' = tasks
         /\ (\E n \in DOMAIN tasks :
                tasks[n].st = "running" /\ tasks'[n].st = "aborted")
              => \/ l_pc = "close_select" /\ l_pc' = "stopped"
                 \/ life.abort /\ l_pc' = "dropped"
    ]_vars

C28_Witness ==
    /\ l_pc = "close_select"
    /\ life.graceful /\ ~life.abort
    /\ tasks[held[1].handle].st = "running"

\* C29: the step of finish_and_renew or close_with_abort_after that cancels
\* the token of the task in the slot leaves abort, graceful and natural as
\* they were and cancels no other iteration's token: every other token
\* keeps its state, and the token created for the new iteration is
\* cancelled only if graceful is.
C29_CancelIsLocal ==
    [][(l_pc \in {"tick", "close"} /\ l_pc' \notin {l_pc, "dropped"}) =>
         /\ life' = life
         /\ \A n \in DOMAIN tokens' :
              (handle = <<>> \/ n # handle[1].cancel) =>
                  tokens'[n] = (IF n \in DOMAIN tokens THEN tokens[n]
                                ELSE life.graceful)
    ]_vars

C29_Witness ==
    /\ l_pc = "renew_select"
    /\ tokens[held[1].cancel]
    /\ ~tokens[created]
    /\ ~life.natural

\* C30: the token is cancelled only if the task was still running when
\* the first sleep elapsed; the task is aborted only after that cancel, if
\* it was still running when the second sleep elapsed; a task that
\* finished before the sleep of its window elapsed has its output returned
\* in Ok; Err is returned only for a task that panicked or after the abort.
C30_LadderInOrder ==
    /\ g_token =>
          (Len(g_at_elapse) >= 1 /\ g_at_elapse[1] = "running")
    /\ g_f.st = "aborted" =>
          (g_token /\ Len(g_at_elapse) = 2 /\ g_at_elapse[2] = "running")
    /\ (g_pc = "returned" /\ g_f.st = "finished" /\ g_ret = <<"Err">>) =>
          g_at_elapse[2] = "running"
    /\ g_ret = <<"Err">> =>
          (g_f.st = "panicked" \/ (g_token /\ Len(g_at_elapse) = 2))

\* C30 as the code has it: the token is cancelled only after the first
\* sleep has elapsed, and the task is aborted only after that cancel and
\* after the second sleep has elapsed; Ok is returned only with the output
\* of a task that finished, Err only for a task that panicked or after
\* both sleeps elapsed and abort was called; a task that ended while the
\* sleep of a window elapsed as well may lose the select and be treated as
\* not having ended in that window.
C30_LadderInOrderBySelect ==
    /\ g_token => Len(g_at_elapse) >= 1
    /\ g_pc = "select1" => ~g_token
    /\ g_f.st = "aborted" =>
          (g_token /\ Len(g_at_elapse) = 2 /\ g_at_elapse[2] = "running"
           /\ g_ret = <<"Err">>)
    /\ (g_ret # <<>> /\ g_ret # <<"Err">>) =>
          (g_f.st = "finished" /\ g_ret = <<"Ok", g_f.out>>)
    /\ g_ret = <<"Err">> =>
          (g_f.st = "panicked" \/ (g_token /\ Len(g_at_elapse) = 2))

C30_Witness ==
    /\ g_pc = "returned"
    /\ g_f.st = "aborted"
    /\ g_token
    /\ g_at_elapse = <<"running", "running">>
    /\ g_ret = <<"Err">>

\* C31: once rowhash has observed its token cancelled, it records no
\* further row and opens no further directory before it returns, so the rows
\* it returns are those recorded before the observation; the observation is
\* of a token that is cancelled, and the entry loop is left on it.
C31_StopsOnceCancelSeen ==
    /\ [](saw_cancel => (cancel /\ f_pc # "inner"))
    /\ [][(saw_cancel \/ saw_cancel') =>
            /\ rows' = rows
            /\ ~(f_pc = "outer" /\ f_pc' = "inner")
            /\ dir_files' \subseteq dir_files]_vars

C31_Witness ==
    /\ saw_cancel
    /\ f_pc = "changes"
    /\ Len(rows) >= 1
    /\ root = SubPath
    /\ tree[SubPath] # {}

\* C32: after set_row(k, h) returns, rows maps k to h whatever tag was
\* pushed (one tag, for k), and the stored hash of every other key and the
\* table hash are unchanged.
C32_SetRowStoresHash ==
    [][Len(calls') = Len(calls) + 1 =>
        LET k == calls'[Len(calls')][1]
            h == calls'[Len(calls')][2]
        IN  /\ k \in DOMAIN ts'.rows
            /\ ts'.rows[k] = h
            /\ DOMAIN ts'.rows = DOMAIN ts.rows \cup {k}
            /\ \A j \in DOMAIN ts.rows \ {k} : ts'.rows[j] = ts.rows[j]
            /\ ts'.tablehash = ts.tablehash
            /\ Len(ts'.changes) = Len(ts.changes) + 1
            /\ SubSeq(ts'.changes, 1, Len(ts.changes)) = ts.changes
            /\ ts'.changes[Len(ts'.changes)] \in {None(k), New(k), Update(k)}]_vars

C32_Witness ==
    /\ calls # <<>>
    /\ ts.changes[Len(ts.changes)] = Update(calls[Len(calls)][1])
    /\ ts.rows[calls[Len(calls)][1]] = calls[Len(calls)][2]
    /\ calls[Len(calls)][1] \in DOMAIN rows0
    /\ rows0[calls[Len(calls)][1]] # calls[Len(calls)][2]
    /\ Cardinality(DOMAIN ts.rows) = MaxKey
    /\ ts.tablehash = <<1>>

====
